---- MODULE Spec2Model ----
(***************************************************************************)
(* A model of the HNSW vector index of rust-hnsw/src/lib.rs: the point     *)
(* table, the layers' adjacency tables, the entry point and the            *)
(* dimensionality, with the operations add, search, delete, save, load,    *)
(* get_stats and clear, the greedy walk search_layer and the f32 cosine    *)
(* distance.                                                               *)
(*                                                                         *)
(* Numbers.  A vector component is an f32 that holds a small integer or    *)
(* NaN: [nan |-> FALSE, v |-> n] or [nan |-> TRUE, v |-> 0].  A distance   *)
(* or a score is an f32 written in units of 2^-26 (One is 1.0), again with *)
(* a nan flag.  Sums of products of small integers are exact in f32; the   *)
(* square root, the product of the two roots, the quotient and the         *)
(* subtractions are rounded to 24 significant bits, ties to even, as IEEE  *)
(* 754 binary32 does.  Infinities and components that overflow a sum are   *)
(* not among the model's vectors.                                          *)
(***************************************************************************)
EXTENDS Integers, Sequences, FiniteSets

(***************************************************************************)
(* Bounds of the model.                                                    *)
(***************************************************************************)
MaxLevel == 1
MaxDim == 2
MaxK == 2
MaxEdges == 2

(***************************************************************************)
(* Program constants.                                                      *)
(***************************************************************************)
LevelCap == 32
DefaultM == 16
DefaultEfConstruction == 200
DefaultEfSearch == 64

Ids == {"a", "b", "c"}

(***************************************************************************)
(* f32                                                                     *)
(***************************************************************************)
F(n) == [nan |-> FALSE, v |-> n]
NaN == [nan |-> TRUE, v |-> 0]
One == 67108864
Mant23 == 8388608
Mant24 == 16777216

Abs(x) == IF x < 0 THEN -x ELSE x

BitLen(n) == CHOOSE b \in 0..31 : (b = 0 \/ 2^(b-1) <= n) /\ (b = 31 \/ n < 2^b)

\* The integer a, in units of 2^-26, rounded to the nearest f32 (ties to
\* even).  An f32 below 2^-2 has a grid finer than the unit: such a value is
\* taken as it is.
RoundToF32(a) ==
  LET n == Abs(a)
      g == IF n < Mant24 THEN 1 ELSE 2^(BitLen(n) - 24)
      lo == n % g
      base == n - lo
      up == 2 * lo > g \/ (2 * lo = g /\ (base \div g) % 2 = 1)
      r == IF up THEN base + g ELSE base
  IN IF a < 0 THEN -r ELSE r

\* a - b of two f32 in units of 2^-26.
f32_sub(a, b) ==
  IF a.nan \/ b.nan THEN NaN ELSE F(RoundToF32(a.v - b.v))

\* a < b of Rust's f32: false when either side is NaN.
f32_lt(a, b) == ~a.nan /\ ~b.nan /\ a.v < b.v

\* a.partial_cmp(b).unwrap_or(Equal) = Less.
cmp_less(a, b) == f32_lt(a, b)

\* A positive f32 as a normalised pair: m * 2^(e - 23), 2^23 <= m < 2^24.
Norm(m, e) == IF m = Mant24 THEN [m |-> Mant23, e |-> e + 1] ELSE [m |-> m, e |-> e]

ISqrt(n) == CHOOSE r \in 0..n : r * r <= n /\ (r + 1) * (r + 1) > n

\* i more binary digits of the square root (the radicand's further digits are 0).
RECURSIVE SqrtDigits(_, _, _)
SqrtDigits(rem, root, i) ==
  IF i = 0 THEN <<root, rem>>
  ELSE IF 4 * rem >= 4 * root + 1
       THEN SqrtDigits(4 * rem - (4 * root + 1), 2 * root + 1, i - 1)
       ELSE SqrtDigits(4 * rem, 2 * root, i - 1)

\* f32::sqrt of the positive integer n: 25 digits of the root, rounded to 24.
f32_sqrt(n) ==
  LET r0 == ISqrt(n)
      bits == BitLen(r0)
      d == SqrtDigits(n - r0 * r0, r0, 25 - bits)
      root == d[1]
      m == IF root % 2 = 1 THEN (root + 1) \div 2 ELSE root \div 2
  IN Norm(m, bits - 1)

\* The f32 product of two positive f32: the 48-bit product of the mantissas
\* from 12-bit halves, rounded to 24 bits.
f32_mul(x, y) ==
  LET a1 == x.m \div 4096
      a0 == x.m % 4096
      b1 == y.m \div 4096
      b0 == y.m % 4096
      mid == a1 * b0 + a0 * b1
      low == (mid % 4096) * 4096 + a0 * b0
      H == a1 * b1 + (mid \div 4096) + (low \div Mant24)
      L == low % Mant24
      big == H >= Mant23
      m0 == IF big THEN H ELSE 2 * H + (L \div Mant23)
      rest == IF big THEN L ELSE L % Mant23
      half == IF big THEN Mant23 ELSE Mant23 \div 2
      up == rest > half \/ (rest = half /\ m0 % 2 = 1)
  IN Norm(IF up THEN m0 + 1 ELSE m0, x.e + y.e + (IF big THEN 1 ELSE 0))

\* Long division n / m, one binary digit a step, until the quotient has 25 bits.
RECURSIVE DivDigits(_, _, _, _)
DivDigits(rem, q, m, s) ==
  IF q >= Mant24 THEN <<q, rem, s>>
  ELSE IF 2 * rem >= m
       THEN DivDigits(2 * rem - m, 2 * q + 1, m, s + 1)
       ELSE DivDigits(2 * rem, 2 * q, m, s + 1)

\* The f32 quotient n / y of a positive integer n and a positive f32 y.
f32_div(n, y) ==
  LET d == DivDigits(n % y.m, n \div y.m, y.m, 0)
      Q == d[1]
      up == Q % 2 = 1 /\ (d[2] > 0 \/ (Q \div 2) % 2 = 1)
  IN Norm((Q \div 2) + (IF up THEN 1 ELSE 0), 47 - y.e - d[3])

\* A positive f32 pair in units of 2^-26.
Units(x) == x.m * 2^(x.e + 3)

\* cosine_distance indexes b[i] for every i below a.len(): a shorter b is an
\* index out of bounds, a panic.
cosine_panics(a, b) == Len(b) < Len(a)

RECURSIVE SumProd(_, _, _)
SumProd(a, b, i) == IF i = 0 THEN 0 ELSE SumProd(a, b, i - 1) + a[i].v * b[i].v

\* Compute cosine distance between two vectors (Len(b) >= Len(a)).
cosine_distance(a, b) ==
  LET n == Len(a)
      nan_a == \E i \in 1..n : a[i].nan
      nan_b == \E i \in 1..n : b[i].nan
      dot == SumProd(a, b, n)
      norm_a == SumProd(a, a, n)
      norm_b == SumProd(b, b, n)
  IN IF (~nan_a /\ norm_a = 0) \/ (~nan_b /\ norm_b = 0) THEN F(One)
     ELSE IF nan_a \/ nan_b THEN NaN
     ELSE IF dot = 0 THEN F(One)
     ELSE LET q == Units(f32_div(Abs(dot), f32_mul(f32_sqrt(norm_a), f32_sqrt(norm_b))))
          IN F(RoundToF32(IF dot < 0 THEN One + q ELSE One - q))

(***************************************************************************)
(* The index                                                               *)
(***************************************************************************)
VARIABLES params, points, layers, entry_point, dimensions, last, pre

index == <<params, points, layers, entry_point, dimensions>>
vars == <<params, points, layers, entry_point, dimensions, last, pre>>

\* Option<String>: None is {}, Some(id) is {id}.
None == {}
Some(id) == {id}

\* HNSWParams::default().
default_params ==
  [m |-> DefaultM, ef_construction |-> DefaultEfConstruction, ef_search |-> DefaultEfSearch]

\* The configurations of the hand-wired indexes.
ParamsChoices == {default_params, [m |-> 2, ef_construction |-> 2, ef_search |-> 1]}

\* The vectors the callers pass: of every length up to MaxDim, all components
\* 1.0, or the first one NaN.
Ones(n) == [i \in 1..n |-> F(1)]
NanFirst(n) == [i \in 1..n |-> IF i = 1 THEN NaN ELSE F(1)]
Vectors == {Ones(n) : n \in 0..MaxDim} \cup {NanFirst(n) : n \in 1..MaxDim}

\* The vectors of the hand-wired points, and the queries of the callers of
\* search on a hand-wired index.
WiredVector(id) ==
  IF id = "a" THEN <<F(1), F(0)>> ELSE IF id = "b" THEN <<F(0), F(1)>> ELSE <<F(1), F(1)>>
Queries ==
  {<<>>, Ones(2), NanFirst(2),
   <<F(1), F(0)>>, <<F(0), F(1)>>, <<F(0), F(0)>>, <<F(-1), F(0)>>}

\* cosine_distance over the model's vectors, computed once.
DistPairs ==
  {p \in (Queries \cup Vectors) \X (Vectors \cup {WiredVector(id) : id \in {"a", "b", "c"}}) :
     Len(p[1]) <= Len(p[2])}
cosine_table == {<<p, cosine_distance(p[1], p[2])>> : p \in DistPairs}
distance(a, b) ==
  LET hits == {t \in cosine_table : t[1] = <<a, b>>}
  IN IF hits = {} THEN cosine_distance(a, b) ELSE (CHOOSE t \in hits : TRUE)[2]

\* The whole index as one value.
Self == [params |-> params, points |-> points, layers |-> layers,
         entry_point |-> entry_point, dimensions |-> dimensions]

\* pre is the index as the last call found it.  last is the record of the last call: its operation, its arguments and what it
\* returned (out: search's entries; stats: get_stats' object; buf: save's bytes).
NoStats == [totalVectors |-> 0, dimensions |-> 0, indexSize |-> 0]
NoBuf == [kind |-> "none", doc |-> <<>>]

\* The locals of a search_layer call that is under way: st holds visited,
\* candidates and results, links the neighbors the for loop has still to
\* take, and popped the ids popped from the candidate stack so far.
NoFrame ==
  [st |-> [visited |-> {}, candidates |-> <<>>, results |-> <<>>, panic |-> FALSE],
   links |-> <<>>, popped |-> <<>>]

Call(op, id, vector, level, k, result) ==
  [op |-> op, id |-> id, vector |-> vector, level |-> level, k |-> k,
   result |-> result, out |-> <<>>, stats |-> NoStats, buf |-> NoBuf, frame |-> NoFrame,
   order |-> <<>>]

\* HashMap::insert.
MapInsert(f, key, val) ==
  [x \in DOMAIN f \cup {key} |-> IF x = key THEN val ELSE f[x]]

\* HashMap::remove.
MapRemove(f, key) == [x \in DOMAIN f \ {key} |-> f[x]]

EmptyMap == [x \in {} |-> <<>>]

\* Generate random level for new point: the levels the loop can end at.  With
\* m <= 1 every draw is below 1/m and the loop runs to the cap.
random_level(m) == {l \in 0..LevelCap : m <= 1 => l = LevelCap}

\* Get entry point level, against the point table pts.
get_entry_level(pts, ep) ==
  IF \E id \in ep : id \in DOMAIN pts
  THEN LET id == CHOOSE x \in ep : TRUE IN pts[id].level
  ELSE 0

\* "Ensure enough layers exist" with an if for the while: one layer at most.
ensure_one_layer(ls, level) ==
  IF Len(ls) <= level THEN Append(ls, [links |-> [x \in {} |-> <<>>]]) ELSE ls

\* "Ensure enough layers exist": push empty layers while layers.len() <= level.
RECURSIVE ensure_layers(_, _)
ensure_layers(ls, level) ==
  IF Len(ls) <= level THEN ensure_layers(Append(ls, [links |-> EmptyMap]), level) ELSE ls

\* "Insert into layers": entry(id).or_insert_with(Vec::new) in layers 0..=level.
insert_into_layers(ls, id, level) ==
  [i \in 1..Len(ls) |->
     IF i - 1 <= level /\ id \notin DOMAIN ls[i].links
     THEN [links |-> MapInsert(ls[i].links, id, <<>>)]
     ELSE ls[i]]

\* "Update entry point" with >= for >: a tie moves the entry point.
add_entry_point_ties(pts, ep, id, level) ==
  IF ep = None \/ level >= get_entry_level(pts, ep) THEN Some(id) ELSE ep

\* "Update entry point" without its test: the point added last.
add_entry_point_last(pts, ep, id, level) == Some(id)

\* "Update entry point".
add_entry_point(pts, ep, id, level) ==
  IF ep = None \/ level > get_entry_level(pts, ep) THEN Some(id) ELSE ep

\* add's check with > for !=: a shorter vector is let in.
add_mismatch_longer(dims, vector) == dims # 0 /\ Len(vector) > dims

\* The dimension check of add: does add reject the vector?
add_mismatch(dims, vector) == dims # 0 /\ Len(vector) # dims

\* The dimensionality after add's check passed.
add_dimensions(dims, vector) == IF dims = 0 THEN Len(vector) ELSE dims

\* new(undefined): the default configuration and an empty index.
Init ==
  /\ params = default_params
  /\ points = EmptyMap
  /\ layers = <<>>
  /\ entry_point = None
  /\ dimensions = 0
  /\ last = Call("new", "", <<>>, 0, 0, "Ok")
  /\ pre = Self

\* Add a vector to the index, the vector rejected: no level is drawn.
AddRejected(id, vector) ==
  /\ add_mismatch(dimensions, vector)
  /\ UNCHANGED index
  /\ last' = Call("add", id, vector, 0, 0, "DimensionMismatch")
  /\ pre' = Self

\* Add a vector to the index, the vector accepted and the level drawn.
AddAccepted(id, vector, level) ==
  /\ ~add_mismatch(dimensions, vector)
  /\ level \in random_level(params.m)
  /\ level <= MaxLevel
  /\ pre' = Self
  /\ LET pts == MapInsert(points, id, [id |-> id, vector |-> vector, level |-> level])
     IN /\ dimensions' = add_dimensions(dimensions, vector)
        /\ points' = pts
        /\ layers' = insert_into_layers(ensure_layers(layers, level), id, level)
        /\ entry_point' = add_entry_point(pts, entry_point, id, level)
        /\ UNCHANGED params
        /\ last' = Call("add", id, vector, level, 0, "Ok")

\* Add a vector to the index.
Add(id, vector) ==
  \/ AddRejected(id, vector)
  \/ \E level \in 0..MaxLevel : AddAccepted(id, vector, level)

\* retain(|link_id| link_id != id).
retain_not(links, id) == SelectSeq(links, LAMBDA x : x # id)

\* delete without the retain: the links to the id stay.
delete_own_entry_only(ls, id) ==
  [i \in 1..Len(ls) |-> [links |-> [x \in DOMAIN ls[i].links \ {id} |-> ls[i].links[x]]]]

\* delete that also pops the layers left empty at the top.
delete_and_trim(ls, id) ==
  LET d == [i \in 1..Len(ls) |->
              [links |-> [x \in DOMAIN ls[i].links \ {id} |-> retain_not(ls[i].links[x], id)]]]
      used == {i \in 1..Len(d) : DOMAIN d[i].links # {}}
  IN SubSeq(d, 1, Cardinality({i \in 1..Len(d) : \E j \in used : i <= j}))

\* "Remove from all layers": the id's own entry, and the links to it.
delete_from_layers(ls, id) ==
  [i \in 1..Len(ls) |->
     [links |-> [x \in DOMAIN ls[i].links \ {id} |-> retain_not(ls[i].links[x], id)]]]

\* delete without the repair of the entry point.
delete_entry_point_kept(pts, ep, id) == {ep}

\* delete that unsets the entry point whatever the id.
delete_entry_point_unset(pts, ep, id) == {None}

\* delete that picks an entry point anew whatever the id.
delete_entry_point_any(pts, ep, id) ==
  IF DOMAIN pts = {} THEN {None} ELSE {Some(x) : x \in DOMAIN pts}

\* "Update entry point if needed": points.keys().next() is any key of the
\* table, or None when it is empty.  The entry points delete may leave.
delete_entry_point(pts, ep, id) ==
  IF ep = Some(id)
  THEN IF DOMAIN pts = {} THEN {None} ELSE {Some(x) : x \in DOMAIN pts}
  ELSE {ep}

\* Delete a vector from the index.
Delete(id) ==
  LET pts == MapRemove(points, id)
  IN /\ points' = pts
     /\ layers' = delete_from_layers(layers, id)
     /\ entry_point' \in delete_entry_point(pts, entry_point, id)
     /\ UNCHANGED <<params, dimensions>>
     /\ last' = Call("delete", id, <<>>, 0, 0, "Ok")
     /\ pre' = Self

\* clear without "self.dimensions = 0".
clear_keeps_dimensions ==
  /\ points' = EmptyMap
  /\ layers' = <<>>
  /\ entry_point' = None
  /\ UNCHANGED <<params, dimensions>>
  /\ last' = Call("clear", "", <<>>, 0, 0, "Ok")
  /\ pre' = Self

\* Clear the index.
Clear ==
  /\ points' = EmptyMap
  /\ layers' = <<>>
  /\ entry_point' = None
  /\ dimensions' = 0
  /\ UNCHANGED params
  /\ last' = Call("clear", "", <<>>, 0, 0, "Ok")
  /\ pre' = Self

(***************************************************************************)
(* Search                                                                  *)
(***************************************************************************)
\* sort_by(|a, b| a.1.partial_cmp(&b.1).unwrap_or(Equal)) is a stable sort:
\* x goes before the first entry it is less than.
asc_dist(a, b) == cmp_less(a.dist, b.dist)

\* search's comparator with a and b swapped: ascending by score.
asc_score(a, b) == cmp_less(a.score, b.score)

desc_score(a, b) == cmp_less(b.score, a.score)

\* The comparator of a sort: search_layer's (by distance, ascending) or
\* search's (by score, descending).
Less(order, a, b) == IF order = "asc_dist" THEN asc_dist(a, b) ELSE desc_score(a, b)

RECURSIVE InsertSorted(_, _, _)
InsertSorted(s, x, order) ==
  IF s = <<>> THEN <<x>>
  ELSE IF Less(order, x, s[1]) THEN <<x>> \o s
  ELSE <<s[1]>> \o InsertSorted(Tail(s), x, order)

RECURSIVE SortBy(_, _)
SortBy(s, order) ==
  IF s = <<>> THEN <<>>
  ELSE InsertSorted(SortBy(SubSeq(s, 1, Len(s) - 1), order), s[Len(s)], order)

Front(s) == SubSeq(s, 1, Len(s) - 1)

\* "results.is_empty() || dist < results.last().unwrap().1": is the
\* neighbor kept?
keeps(results, dist) == results = <<>> \/ f32_lt(dist, results[Len(results)].dist)

\* The walk's state before the loop: the entry point, if it is a stored
\* point, is pushed on the candidate stack and marked visited.
walk_start(pts, ep, vector) ==
  IF \E id \in ep : id \in DOMAIN pts
  THEN LET id == CHOOSE x \in ep : TRUE
       IN IF cosine_panics(vector, pts[id].vector)
          THEN [visited |-> {}, candidates |-> <<>>, results |-> <<>>, panic |-> TRUE]
          ELSE [visited |-> {id},
                candidates |-> <<[id |-> id, dist |-> distance(vector, pts[id].vector)]>>,
                results |-> <<>>, panic |-> FALSE]
  ELSE [visited |-> {}, candidates |-> <<>>, results |-> <<>>, panic |-> FALSE]

\* The body of the for loop without "visited.insert(neighbor_id.clone())".
visit_unmarked(st, pts, vector, ef, nid) ==
  IF st.panic \/ nid \in st.visited THEN st
  ELSE IF nid \notin DOMAIN pts THEN st
       ELSE IF cosine_panics(vector, pts[nid].vector) THEN [st EXCEPT !.panic = TRUE]
       ELSE LET dist == distance(vector, pts[nid].vector)
                e == [id |-> nid, dist |-> dist]
                sorted == SortBy(Append(st.results, e), "asc_dist")
            IN IF keeps(st.results, dist)
               THEN [st EXCEPT !.candidates = Append(@, e),
                               !.results = IF Len(sorted) > ef THEN Front(sorted) ELSE sorted]
               ELSE st

\* The body of "for neighbor_id in links".
visit(st, pts, vector, ef, nid) ==
  IF st.panic \/ nid \in st.visited THEN st
  ELSE LET seen == [st EXCEPT !.visited = @ \cup {nid}]
       IN IF nid \notin DOMAIN pts THEN seen
          ELSE IF cosine_panics(vector, pts[nid].vector) THEN [seen EXCEPT !.panic = TRUE]
          ELSE LET dist == distance(vector, pts[nid].vector)
                   e == [id |-> nid, dist |-> dist]
                   sorted == SortBy(Append(st.results, e), "asc_dist")
               IN IF keeps(st.results, dist)
                  THEN [seen EXCEPT !.candidates = Append(@, e),
                                    !.results = IF Len(sorted) > ef THEN Front(sorted) ELSE sorted]
                  ELSE seen

RECURSIVE visit_all(_, _, _, _, _)
visit_all(st, pts, vector, ef, links) ==
  IF links = <<>> THEN st
  ELSE visit_all(visit(st, pts, vector, ef, links[1]), pts, vector, ef, Tail(links))

\* self.layers.get(layer).and_then(|l| l.links.get(&current_id)), no links as <<>>.
links_of(ls, layer, id) ==
  IF layer < Len(ls) /\ id \in DOMAIN ls[layer + 1].links THEN ls[layer + 1].links[id] ELSE <<>>

\* One turn of "while let Some((current_id, _)) = candidates.pop()".
expand(st, pts, ls, vector, ef, layer) ==
  LET cur == st.candidates[Len(st.candidates)]
      popped == [st EXCEPT !.candidates = Front(@)]
  IN visit_all(popped, pts, vector, ef, links_of(ls, layer, cur.id))

RECURSIVE walk(_, _, _, _, _, _)
walk(st, pts, ls, vector, ef, layer) ==
  IF st.panic \/ st.candidates = <<>> THEN st
  ELSE walk(expand(st, pts, ls, vector, ef, layer), pts, ls, vector, ef, layer)

\* Search a single layer.
search_layer(pts, ls, ep, vector, ef, layer) ==
  walk(walk_start(pts, ep, vector), pts, ls, vector, ef, layer)

Max(a, b) == IF a >= b THEN a ELSE b

\* "Convert to similarity": the candidates that are stored points, with 1.0 - dist.
to_similarity(pts, cands) ==
  LET kept == SelectSeq(cands, LAMBDA c : c.id \in DOMAIN pts)
  IN [i \in 1..Len(kept) |-> [id |-> kept[i].id, score |-> f32_sub(F(One), kept[i].dist)]]

\* truncate(k).
truncate(s, k) == IF Len(s) > k THEN SubSeq(s, 1, k) ELSE s

\* "Get top k results": sorted by descending score, cut to k.
top_k(pts, cands, k) == truncate(SortBy(to_similarity(pts, cands), "desc_score"), k)

\* The dimension check of search.
search_mismatch(dims, vector) == Len(vector) # dims

\* Search for nearest neighbors.
Search(vector, k) ==
  /\ UNCHANGED index
  /\ pre' = Self
  /\ IF search_mismatch(dimensions, vector)
     THEN last' = Call("search", "", vector, 0, k, "DimensionMismatch")
     ELSE LET st == search_layer(points, layers, entry_point, vector, Max(params.ef_search, k), 0)
          IN IF st.panic
             THEN last' = Call("search", "", vector, 0, k, "panic")
             ELSE last' = [Call("search", "", vector, 0, k, "Ok")
                             EXCEPT !.out = top_k(points, st.results, k)]

\* get_stats with the layers counted for the points.
get_stats_of_layers ==
  [totalVectors |-> Len(layers),
   dimensions |-> dimensions,
   indexSize |-> Len(layers) * dimensions * 4]

\* Get index statistics.
get_stats_object ==
  [totalVectors |-> Cardinality(DOMAIN points),
   dimensions |-> dimensions,
   indexSize |-> Cardinality(DOMAIN points) * dimensions * 4]

GetStats ==
  /\ UNCHANGED index
  /\ pre' = Self
  /\ last' = [Call("get_stats", "", <<>>, 0, 0, "Ok") EXCEPT !.stats = get_stats_object]

(***************************************************************************)
(* Persistence.  The bytes are modelled as the JSON document they spell    *)
(* (kind "json"), or as bytes that are no JSON document (kind "garbage").  *)
(***************************************************************************)
\* serde_json writes a finite f32 as a number and a NaN or an infinity as null.
json_f32(x) == IF x.nan THEN [t |-> "null", v |-> 0] ELSE [t |-> "num", v |-> x.v]

\* serde_json reads an f32 from a number only.
f32_readable(j) == j.t = "num"
f32_of_json(j) == F(j.v)

json_point(p) ==
  [id |-> p.id, vector |-> [i \in 1..Len(p.vector) |-> json_f32(p.vector[i])], level |-> p.level]

point_of_json(j) ==
  [id |-> j.id, vector |-> [i \in 1..Len(j.vector) |-> f32_of_json(j.vector[i])], level |-> j.level]

\* #[derive(Serialize)] of HNSWIndex: an object of its five fields.
to_json(s) ==
  [params |-> s.params,
   points |-> [id \in DOMAIN s.points |-> json_point(s.points[id])],
   layers |-> s.layers,
   entry_point |-> s.entry_point,
   dimensions |-> s.dimensions]

\* serde_json::to_vec(self).
to_vec(s) == [kind |-> "json", doc |-> to_json(s)]

\* #[derive(Deserialize)] of HNSWIndex: every field but the Option must be
\* there, and every vector component must be a number.
deserializes(data) ==
  /\ data.kind = "json"
  /\ {"params", "points", "layers", "dimensions"} \subseteq DOMAIN data.doc
  /\ \A id \in DOMAIN data.doc.points :
       \A i \in 1..Len(data.doc.points[id].vector) :
         f32_readable(data.doc.points[id].vector[i])

\* serde_json::from_slice(data), when it succeeds.
from_slice(data) ==
  [params |-> data.doc.params,
   points |-> [id \in DOMAIN data.doc.points |-> point_of_json(data.doc.points[id])],
   layers |-> data.doc.layers,
   entry_point |-> IF "entry_point" \in DOMAIN data.doc THEN data.doc.entry_point ELSE None,
   dimensions |-> data.doc.dimensions]

\* A load that keeps the live configuration.
replace_all_but_params(loaded) ==
  /\ UNCHANGED params
  /\ points' = loaded.points
  /\ layers' = loaded.layers
  /\ entry_point' = loaded.entry_point
  /\ dimensions' = loaded.dimensions

\* "*self = loaded".
replace_self(loaded) ==
  /\ params' = loaded.params
  /\ points' = loaded.points
  /\ layers' = loaded.layers
  /\ entry_point' = loaded.entry_point
  /\ dimensions' = loaded.dimensions

\* Save the index to bytes.
Save ==
  /\ UNCHANGED index
  /\ pre' = Self
  /\ last' = [Call("save", "", <<>>, 0, 0, "Ok") EXCEPT !.buf = to_vec(Self)]

\* Load the index from bytes.
Load(data) ==
  /\ pre' = Self
  /\ IF deserializes(data)
     THEN /\ replace_self(from_slice(data))
          /\ last' = [Call("load", "", <<>>, 0, 0, "Ok") EXCEPT !.buf = data]
     ELSE /\ UNCHANGED index
          /\ last' = [Call("load", "", <<>>, 0, 0, "DeserializationError") EXCEPT !.buf = data]

\* load() of the bytes the last save() returned.
LoadSaved == last.op = "save" /\ Load(last.buf)

(***************************************************************************)
(* Specifications                                                          *)
(***************************************************************************)
\* The ids the callers add and delete.
CallerIds == {"a", "b"}

AddAny == \E id \in CallerIds, vector \in Vectors : Add(id, vector)
DeleteAny == \E id \in CallerIds : Delete(id)
SearchAny == \E vector \in Vectors, k \in 0..MaxK : Search(vector, k)

\* A fresh index under add, search, delete, get_stats, clear, save, and load of
\* what save returned.
Next ==
  \/ AddAny
  \/ DeleteAny
  \/ SearchAny
  \/ GetStats
  \/ Clear
  \/ Save
  \/ LoadSaved

Spec == Init /\ [][Next]_vars

(***************************************************************************)
(* Hand-wired indexes: the states a test builds field by field, or a       *)
(* crafted snapshot loads.  Three ids with fixed vectors of length 2, of   *)
(* which "c" may be no stored point; in layer 0 any adjacency lists of at  *)
(* most MaxEdges edges in all (self-loops, cycles, repeated and dangling   *)
(* neighbors included); a wired layer 1 or none; any entry point or none.    *)
(***************************************************************************)
WiredPoints(P) ==
  [id \in P |-> [id |-> id, vector |-> WiredVector(id), level |-> IF id = "a" THEN 1 ELSE 0]]

NbrLists == UNION {[1..n -> Ids] : n \in 0..MaxEdges}

RECURSIVE EdgeCount(_, _)
EdgeCount(f, S) ==
  IF S = {} THEN 0
  ELSE LET x == CHOOSE y \in S : TRUE IN Len(f[x]) + EdgeCount(f, S \ {x})

WiredLinks0 == {f \in [Ids -> NbrLists] : EdgeCount(f, Ids) <= MaxEdges}

WiredLinks1 == [x \in {"a", "b"} |-> IF x = "a" THEN <<"b">> ELSE <<"a", "c">>]

\* The stored points and the number of layers of a hand-wired index.
WiredShapes == {<<Ids, 2>>, <<{"a", "b"}, 2>>, <<{"a", "b"}, 1>>}

WiredLayers(f, n) ==
  IF n = 1 THEN <<[links |-> f]>> ELSE <<[links |-> f], [links |-> WiredLinks1]>>

WiredStates ==
  {[params |-> p, points |-> WiredPoints(sh[1]), layers |-> WiredLayers(f, sh[2]),
    entry_point |-> ep, dimensions |-> 2] :
     p \in ParamsChoices, sh \in WiredShapes, f \in WiredLinks0,
     ep \in {None} \cup {Some(id) : id \in Ids}}

InitWired ==
  /\ \E s \in WiredStates :
       /\ params = s.params
       /\ points = s.points
       /\ layers = s.layers
       /\ entry_point = s.entry_point
       /\ dimensions = s.dimensions
  /\ last = Call("new", "", <<>>, 0, 0, "Ok")
  /\ pre = Self

\* search on a hand-wired index.
SearchWired == \E vector \in Queries, k \in {0, 1, MaxK} : Search(vector, k)

NextSearch == SearchWired

SpecSearch == InitWired /\ [][NextSearch]_vars

\* Crafted bytes: no JSON at all; a document without its dimensions field; a
\* document with a null vector component; a snapshot of a one-point index;
\* the same without its entry_point field.
Garbage == [kind |-> "garbage", doc |-> <<>>]

CraftedState ==
  [params |-> [m |-> 4, ef_construction |-> 8, ef_search |-> 2],
   points |-> [id \in {"c"} |-> [id |-> "c", vector |-> <<F(1)>>, level |-> 0]],
   layers |-> <<[links |-> [id \in {"c"} |-> <<"c">>]]>>,
   entry_point |-> Some("c"),
   dimensions |-> 1]

WithoutField(doc, field) == [f \in DOMAIN doc \ {field} |-> doc[f]]

NullVectorDoc ==
  [to_json(CraftedState) EXCEPT !.points["c"].vector = <<[t |-> "null", v |-> 0]>>]

CraftedBuffers ==
  {Garbage,
   [kind |-> "json", doc |-> WithoutField(to_json(CraftedState), "dimensions")],
   [kind |-> "json", doc |-> NullVectorDoc],
   to_vec(CraftedState),
   [kind |-> "json", doc |-> WithoutField(to_json(CraftedState), "entry_point")]}

LoadCrafted == \E data \in CraftedBuffers : Load(data)
DeleteWired == \E id \in Ids : Delete(id)

\* A hand-wired index under delete, clear, save and load.
NextWired ==
  \/ DeleteWired
  \/ Clear
  \/ Save
  \/ LoadSaved
  \/ LoadCrafted

SpecWired == InitWired /\ [][NextWired]_vars

(***************************************************************************)
(* Adds of pairwise distinct ids on a fresh or cleared index.  last.order  *)
(* records the ids in the order of their adds since the index was empty.   *)
(***************************************************************************)
\* add of an id that is not stored, the vector accepted.
AddDistinct(id, vector, level) ==
  /\ id \notin DOMAIN points
  /\ ~add_mismatch(dimensions, vector)
  /\ level \in random_level(params.m)
  /\ level <= MaxLevel
  /\ pre' = Self
  /\ LET pts == MapInsert(points, id, [id |-> id, vector |-> vector, level |-> level])
     IN /\ dimensions' = add_dimensions(dimensions, vector)
        /\ points' = pts
        /\ layers' = insert_into_layers(ensure_layers(layers, level), id, level)
        /\ entry_point' = add_entry_point(pts, entry_point, id, level)
        /\ UNCHANGED params
        /\ last' = [Call("add", id, vector, level, 0, "Ok")
                      EXCEPT !.order = Append(last.order, id)]

AddDistinctAny ==
  \E id \in Ids, vector \in Vectors, level \in 0..MaxLevel : AddDistinct(id, vector, level)

NextAdds ==
  \/ AddDistinctAny
  \/ Clear

SpecAdds == Init /\ [][NextAdds]_vars

(***************************************************************************)
(* search_layer step by step: the call is entered, and then the while loop *)
(* pops a candidate and the for loop takes its neighbors one at a time,    *)
(* until the stack is empty and the call returns its results.  The call's  *)
(* vector, ef and layer are kept in last.vector, last.k and last.level.    *)
(***************************************************************************)
Running == last.op = "search_layer" /\ last.result = "running"

\* The call is entered: "Start from entry point".
SearchLayerStart(vector, ef, layer) ==
  /\ last.op = "new"
  /\ UNCHANGED index
  /\ pre' = Self
  /\ last' = [Call("search_layer", "", vector, layer, ef, "running")
                EXCEPT !.frame = [st |-> walk_start(points, entry_point, vector),
                                  links |-> <<>>, popped |-> <<>>]]

\* "while let Some((current_id, _)) = candidates.pop()", and the lookup of
\* the links of current_id in the layer.
SearchLayerPop ==
  /\ Running
  /\ ~last.frame.st.panic
  /\ last.frame.links = <<>>
  /\ last.frame.st.candidates # <<>>
  /\ UNCHANGED <<index, pre>>
  /\ LET cur == last.frame.st.candidates[Len(last.frame.st.candidates)]
     IN last' = [last EXCEPT !.frame.st.candidates = Front(@),
                             !.frame.links = links_of(layers, last.level, cur.id),
                             !.frame.popped = Append(@, cur.id)]

\* One turn of "for neighbor_id in links".
SearchLayerVisit ==
  /\ Running
  /\ ~last.frame.st.panic
  /\ last.frame.links # <<>>
  /\ UNCHANGED <<index, pre>>
  /\ last' = [last EXCEPT !.frame.st = visit(@, points, last.vector, last.k, Head(last.frame.links)),
                          !.frame.links = Tail(@)]

\* The stack is empty: the call returns results (or it panicked).
SearchLayerReturn ==
  /\ Running
  /\ last.frame.st.panic \/ (last.frame.links = <<>> /\ last.frame.st.candidates = <<>>)
  /\ UNCHANGED <<index, pre>>
  /\ last' = [last EXCEPT !.result = IF last.frame.st.panic THEN "panic" ELSE "Ok",
                          !.out = last.frame.st.results]

\* The queries, the ef and the layers of the calls of search_layer.
WalkQueries == {<<F(1), F(0)>>, NanFirst(2)}
WalkEfs == {0, 1, MaxK, DefaultEfSearch}
WalkLayers == {0, 1}

SearchLayerAny ==
  \E vector \in WalkQueries, ef \in WalkEfs, layer \in WalkLayers :
    SearchLayerStart(vector, ef, layer)

\* One call of search_layer on a hand-wired index.
NextWalk ==
  \/ SearchLayerAny
  \/ SearchLayerPop
  \/ SearchLayerVisit
  \/ SearchLayerReturn

InitWalk == InitWired /\ params = default_params

SpecWalk == InitWalk /\ [][NextWalk]_vars

\* The call runs on: a loop that can take a turn takes it.
SpecWalkFair == SpecWalk /\ WF_vars(SearchLayerPop \/ SearchLayerVisit \/ SearchLayerReturn)

(***************************************************************************)
(* Properties                                                              *)
(***************************************************************************)
Range(q) == {q[i] : i \in 1..Len(q)}
LayerIndexes == 0..(Len(layers) - 1)
links_at(l) == layers[l + 1].links

\* C1: once the dimensionality is established (not 0), an add or a search
\* with a vector of another length returns DimensionMismatch and leaves the
\* point table, the layers, the entry point and the dimensionality (and the
\* configuration) as the call found them.
C1_MismatchRejected ==
  (last.op \in {"add", "search"} /\ pre.dimensions # 0 /\ Len(last.vector) # pre.dimensions)
    => (last.result = "DimensionMismatch" /\ Self = pre)

\* An add of a vector of the wrong length was rejected on an index that holds a point.
C1_Witness ==
  /\ last.op = "add"
  /\ last.result = "DimensionMismatch"
  /\ dimensions = 2
  /\ Len(last.vector) = 1
  /\ DOMAIN points # {}

\* C2: every stored vector has the index's dimensionality; the dimensionality
\* is 0 only when the point table is empty; and an add that succeeds on an
\* index that holds a point, and a delete, leave the dimensionality as it was.
C2_OneDimensionality ==
  /\ \A id \in DOMAIN points : Len(points[id].vector) = dimensions
  /\ dimensions = 0 => DOMAIN points = {}
  /\ ((last.op = "add" /\ last.result = "Ok" /\ DOMAIN pre.points # {}) \/ last.op = "delete")
       => dimensions = pre.dimensions

\* C3: after delete(id) the id is no stored point, no key of any layer and in
\* no neighbor list of any layer; the other points, keys and neighbor
\* references are as the call found them.
C3_DeleteComplete ==
  last.op = "delete" =>
    /\ last.id \notin DOMAIN points
    /\ \A l \in LayerIndexes :
         /\ last.id \notin DOMAIN links_at(l)
         /\ \A x \in DOMAIN links_at(l) : last.id \notin Range(links_at(l)[x])
    /\ DOMAIN points = DOMAIN pre.points \ {last.id}
    /\ \A x \in DOMAIN points : points[x] = pre.points[x]
    /\ Len(layers) = Len(pre.layers)
    /\ \A l \in LayerIndexes :
         /\ DOMAIN links_at(l) = DOMAIN pre.layers[l + 1].links \ {last.id}
         /\ \A x \in DOMAIN links_at(l) :
              LET before == pre.layers[l + 1].links[x]
                  kept == {i \in 1..Len(before) : before[i] # last.id}
              IN /\ Len(links_at(l)[x]) = Cardinality(kept)
                 /\ \A i \in kept :
                      links_at(l)[x][Cardinality({j \in kept : j <= i})] = before[i]

\* A delete of a stored point that was a key of two layers and a neighbor in
\* both, on an index that keeps another edge.
C3_Witness ==
  /\ last.op = "delete"
  /\ last.id \in DOMAIN pre.points
  /\ Len(pre.layers) = 2
  /\ \A i \in 1..2 :
       /\ last.id \in DOMAIN pre.layers[i].links
       /\ \E x \in DOMAIN pre.layers[i].links \ {last.id} :
            last.id \in Range(pre.layers[i].links[x])
  /\ \E x \in DOMAIN links_at(1) : links_at(1)[x] # <<>>

\* C4: a load that fails returns DeserializationError and leaves the whole
\* state as it found it; a load that succeeds makes the state the loaded
\* one, whatever the state was.
C4_LoadAtomic ==
  last.op = "load" =>
    IF last.result = "Ok"
    THEN /\ deserializes(last.buf)
         /\ Self = from_slice(last.buf)
         /\ last.buf = to_vec(CraftedState) => Self = CraftedState
    ELSE /\ last.result = "DeserializationError"
         /\ ~deserializes(last.buf)
         /\ Self = pre

\* A crafted snapshot was loaded over a hand-wired index of three points.
C4_Witness ==
  /\ last.op = "load"
  /\ last.result = "Ok"
  /\ DOMAIN pre.points = Ids
  /\ pre.params # CraftedState.params
  /\ Self = CraftedState

\* C5: the bytes save returned load into an index equal to the saved one, and
\* save left the index as it was.
C5_RoundTrip ==
  last.op = "save" =>
    /\ Self = pre
    /\ deserializes(last.buf)
    /\ from_slice(last.buf) = Self

\* C6: a search that succeeds returns at most k entries, of distinct ids, each
\* a stored point with the score 1 - distance(query, its vector), in the order
\* of non-increasing score.
C6_SearchResult ==
  (last.op = "search" /\ last.result = "Ok") =>
    /\ Len(last.out) <= last.k
    /\ \A i, j \in 1..Len(last.out) : i < j => last.out[i].id # last.out[j].id
    /\ \A i \in 1..Len(last.out) :
         /\ last.out[i].id \in DOMAIN points
         /\ last.out[i].score =
              f32_sub(F(One), cosine_distance(last.vector, points[last.out[i].id].vector))
    /\ \A i, j \in 1..Len(last.out) : i < j => ~f32_lt(last.out[i].score, last.out[j].score)

\* A search returned two entries of different scores.
C6_Witness ==
  /\ last.op = "search"
  /\ last.result = "Ok"
  /\ Len(last.out) = 2
  /\ f32_lt(last.out[2].score, last.out[1].score)

\* The index holds two points, one layer, one layer-0 edge, from one point to
\* the other, and the entry point is one of the two.
TwoPointsOneEdge ==
  /\ DOMAIN points = {"a", "b"}
  /\ Len(layers) = 1
  /\ EdgeCount(links_at(0), Ids) = 1
  /\ links_at(0)["a"] = <<"b">> \/ links_at(0)["b"] = <<"a">>
  /\ entry_point \in {Some("a"), Some("b")}

\* The point `first` is the entry point, or the target of the edge from it.
ReachedFromEntry(first) ==
  \/ entry_point = Some(first)
  \/ \E e \in entry_point : links_at(0)[e] = <<first>>

\* C7: on such an index a search with the first point's vector and k >= 1
\* returns the first point first, with score 1.0, whenever the first point is
\* the entry point or the target of the edge from the entry point.
C7_ScenarioC ==
  \A first \in {"a", "b"} :
    (/\ TwoPointsOneEdge
     /\ ReachedFromEntry(first)
     /\ last.op = "search"
     /\ last.k >= 1
     /\ last.vector = points[first].vector)
      => (/\ last.result = "Ok"
          /\ last.out # <<>>
          /\ last.out[1] = [id |-> first, score |-> F(One)])

\* C8: the entry point, if set, is a stored point, and it is unset exactly
\* when the point table is empty.
C8_EntryPointStored ==
  /\ \A id \in entry_point : id \in DOMAIN points
  /\ entry_point = None <=> DOMAIN points = {}

\* The entry point was deleted and another stored point took its place.
C8_Witness ==
  /\ last.op = "delete"
  /\ pre.entry_point = Some(last.id)
  /\ entry_point # None
  /\ entry_point # pre.entry_point

MaxLevelOf(pts) == CHOOSE m \in {pts[id].level : id \in DOMAIN pts} :
                     \A id \in DOMAIN pts : pts[id].level <= m

\* C9: with a point stored, the number of layers is 1 + the maximum level of
\* the stored points.
C9_LayersEqualMaxLevel ==
  DOMAIN points # {} => Len(layers) = 1 + MaxLevelOf(points)

\* C9 as amended: with a point stored, the number of layers is at least 1 +
\* the maximum level of the stored points.
C9_LayersCoverMaxLevel ==
  DOMAIN points # {} => Len(layers) >= 1 + MaxLevelOf(points)

\* A delete left two layers over stored points that are all of level 0.
C9_Witness ==
  /\ last.op = "delete"
  /\ DOMAIN points # {}
  /\ Len(layers) = 2
  /\ MaxLevelOf(points) = 0

\* C10: a stored point of level L is a key of the layers 0..L and of no
\* layer above L.
C10_KeysUpToLevel ==
  \A id \in DOMAIN points :
    \A l \in LayerIndexes : id \in DOMAIN links_at(l) <=> l <= points[id].level

\* C11: delete of an id that is no stored point returns success and leaves
\* the point table, every layer, the entry point and the dimensionality (and
\* the configuration) as the call found them.
C11_DeleteAbsentNoOp ==
  (last.op = "delete" /\ last.id \notin DOMAIN pre.points)
    => (last.result = "Ok" /\ Self = pre)

\* An id that is no stored point was deleted from an index that holds another
\* point and an empty layer above it.
C11_Witness ==
  /\ last.op = "delete"
  /\ last.id \notin DOMAIN pre.points
  /\ DOMAIN pre.points # {}
  /\ Len(pre.layers) = 2
  /\ DOMAIN pre.layers[2].links = {}

\* C12: clear leaves no points, no layers, no entry point and dimensionality
\* 0, and the configuration as it was; the add that follows a clear succeeds
\* whatever the length of its vector, stores the vector, and makes that
\* length the dimensionality.
C12_ClearResets ==
  [][/\ last'.op = "clear" =>
          /\ points' = EmptyMap
          /\ layers' = <<>>
          /\ entry_point' = None
          /\ dimensions' = 0
          /\ params' = params
     /\ (last.op = "clear" /\ last'.op = "add") =>
          /\ last'.result = "Ok"
          /\ dimensions' = Len(last'.vector)
          /\ DOMAIN points' = {last'.id}
          /\ points'[last'.id].vector = last'.vector]_vars

\* clear emptied an index of two points, two layers and dimensionality 2.
C12_Witness ==
  /\ last.op = "clear"
  /\ DOMAIN pre.points = {"a", "b"}
  /\ Len(pre.layers) = 2
  /\ pre.dimensions = 2
  /\ Self = [pre EXCEPT !.points = EmptyMap, !.layers = <<>>, !.entry_point = None,
                        !.dimensions = 0]

C14_AddEntryPoint ==
  (last.op = "add" /\ last.result = "Ok") =>
    entry_point =
      IF pre.entry_point = None
           \/ last.level > get_entry_level(pre.points, pre.entry_point)
      THEN Some(last.id)
      ELSE pre.entry_point

\* A stored point that is not the entry point was added again, at the level
\* of the entry point, 1, and the entry point stayed.
C14_Witness ==
  /\ last.op = "add"
  /\ last.result = "Ok"
  /\ last.id \in DOMAIN pre.points
  /\ pre.entry_point # None
  /\ pre.entry_point # Some(last.id)
  /\ get_entry_level(pre.points, pre.entry_point) = 1
  /\ last.level = 1
  /\ entry_point = pre.entry_point

\* C15: delete(id) of the entry point leaves as entry point a point still
\* stored, or none if no point is stored; delete of any other id leaves the
\* entry point as it was.
C15_DeleteEntryPoint ==
  last.op = "delete" =>
    IF pre.entry_point = Some(last.id)
    THEN /\ entry_point # Some(last.id)
         /\ \A e \in entry_point : e \in DOMAIN points
         /\ entry_point = None <=> DOMAIN points = {}
    ELSE entry_point = pre.entry_point

\* The entry point was deleted, two points stayed, and the one of the lower
\* level became the entry point.
C15_Witness ==
  /\ last.op = "delete"
  /\ pre.entry_point = Some(last.id)
  /\ Cardinality(DOMAIN points) = 2
  /\ \E e \in entry_point : e \in DOMAIN points /\ points[e].level < MaxLevelOf(points)

\* The step is a turn of search_layer's for loop.
VisitStep == Running /\ last.frame.links # <<>> /\ last'.frame.links = Tail(last.frame.links)

\* C16: a turn of the for loop that takes a neighbor not yet visited, a
\* stored point, pushes it on the candidate stack and inserts it in the
\* results whenever the results hold fewer than ef entries or its distance is
\* less than the last (worst) one's; and the results stay sorted by ascending
\* distance and never hold more than ef entries.
C16_KeepRule ==
  [][VisitStep =>
       LET nid == Head(last.frame.links)
           st == last.frame.st
           after == last'.frame.st
           ef == last.k
           dist == distance(last.vector, points[nid].vector)
       IN /\ (/\ nid \notin st.visited
              /\ nid \in DOMAIN points
              /\ \/ Len(st.results) < ef
                 \/ st.results # <<>> /\ f32_lt(dist, st.results[Len(st.results)].dist))
               => /\ after.candidates = Append(st.candidates, [id |-> nid, dist |-> dist])
                  /\ \E i \in 1..Len(after.results) : after.results[i].id = nid
          /\ Len(after.results) <= ef
          /\ \A i, j \in 1..Len(after.results) :
               i < j => ~f32_lt(after.results[j].dist, after.results[i].dist)]_vars

\* C17: an add and a delete never leave fewer layers than they found, and a
\* delete leaves as many; only clear and a successful load make them fewer.
C17_LayersNeverDecrease ==
  /\ last.op = "add" => Len(layers) >= Len(pre.layers)
  /\ last.op = "delete" => Len(layers) = Len(pre.layers)
  /\ last.op = "clear" => Len(layers) = 0
  /\ Len(layers) < Len(pre.layers) =>
       last.op = "clear" \/ (last.op = "load" /\ last.result = "Ok")

\* The only key of the top layer was deleted and the layer stayed, empty.
C17_Witness ==
  /\ last.op = "delete"
  /\ Len(layers) = 2
  /\ DOMAIN pre.layers[2].links = {last.id}
  /\ DOMAIN links_at(1) = {}
  /\ DOMAIN points # {}

\* C18: every neighbor list of every layer is empty, and a search with a
\* vector of the index's dimensionality returns successfully, and returns
\* the empty sequence, whatever the query and k.
C18_NoEdgesNoResults ==
  /\ \A l \in LayerIndexes : \A x \in DOMAIN links_at(l) : links_at(l)[x] = <<>>
  /\ (last.op = "search" /\ Len(last.vector) = dimensions) =>
       (last.result = "Ok" /\ last.out = <<>>)

\* C19: a call of search_layer returns, whatever the graph: an id is pushed
\* on the candidate stack only when it is marked visited by the same step and
\* was not before, the visited set only grows, no id is popped twice, and
\* the stack empties and the call returns.
C19_WalkTerminates ==
  /\ [](last.op = "search_layer" =>
          LET st == last.frame.st
              popped == last.frame.popped
          IN /\ \A i, j \in 1..Len(popped) : i < j => popped[i] # popped[j]
             /\ \A i, j \in 1..Len(st.candidates) :
                  i < j => st.candidates[i].id # st.candidates[j].id
             /\ \A i \in 1..Len(st.candidates) :
                  /\ st.candidates[i].id \in st.visited
                  /\ st.candidates[i].id \notin Range(popped)
             /\ Range(popped) \subseteq st.visited)
  /\ [][/\ last.frame.st.visited \subseteq last'.frame.st.visited
        /\ Len(last'.frame.st.candidates) > Len(last.frame.st.candidates) =>
             LET top == last'.frame.st.candidates[Len(last'.frame.st.candidates)].id
             IN /\ last'.frame.st.candidates =
                     Append(last.frame.st.candidates,
                            last'.frame.st.candidates[Len(last'.frame.st.candidates)])
                /\ top \notin last.frame.st.visited
                /\ top \in last'.frame.st.visited]_vars
  /\ Running ~> (last.op = "search_layer" /\ last.result = "Ok"
                   /\ last.frame.st.candidates = <<>> /\ last.frame.links = <<>>)

\* A call returned after a walk around a cycle that met an id that names no
\* stored point: a and b link to each other, and b to c.
C19_Witness ==
  /\ last.op = "search_layer"
  /\ last.result = "Ok"
  /\ last.frame.popped = <<"a", "b">>
  /\ "b" \in Range(links_of(layers, last.level, "a"))
  /\ "a" \in Range(links_of(layers, last.level, "b"))
  /\ "c" \in last.frame.st.visited
  /\ "c" \notin DOMAIN points

\* C20: after adds of pairwise distinct ids on a fresh or cleared index, the
\* entry point is a stored point of the maximum level, and of the points of
\* that level the one added first.
C20_EntryIsFirstOfMaxLevel ==
  LET order == last.order
      pos(id) == CHOOSE i \in 1..Len(order) : order[i] = id
  IN DOMAIN points # {} =>
       /\ Range(order) = DOMAIN points
       /\ \E e \in entry_point :
            /\ e \in DOMAIN points
            /\ points[e].level = MaxLevelOf(points)
            /\ \A id \in DOMAIN points :
                 points[id].level = MaxLevelOf(points) => pos(e) <= pos(id)

\* Three points were added, the second and the third of the maximum level, 1:
\* the second is the entry point.
C20_Witness ==
  /\ Len(last.order) = 3
  /\ points[last.order[1]].level = 0
  /\ points[last.order[2]].level = 1
  /\ points[last.order[3]].level = 1
  /\ entry_point = Some(last.order[2])

====
